---- MODULE Spec2Model ----
(***************************************************************************)
(* Model of src/agents.py: the resume restructuring pipeline.              *)
(*                                                                         *)
(* ResumeWorkerAgent.execute_task runs five tools in sequence.  A run is   *)
(* one operating-system process executing execute_task; several runs may   *)
(* share the working directory, so the file system (./data, ./output,      *)
(* temp_resume.pdf) and the wall clock are shared state, and everything    *)
(* else is local to a run.  Text is a sequence of one-character strings.   *)
(* The parsing service (LlamaParse), the language model (Ollama) and the   *)
(* PDF library's output are outside the program: each either returns or    *)
(* raises, chosen nondeterministically.                                    *)
(***************************************************************************)
EXTENDS Integers, Sequences, FiniteSets, TLC

\* ------------------------------------------------------------------ bounds
MaxRuns  == 2   \* processes running execute_task in the same directory
MaxFiles == 3   \* files in ./data
MaxLen   == 3   \* characters of a text returned by the language model
MaxClock == 1   \* seconds the wall clock may advance
MaxLines == 30  \* lines of the longest text, enough for a second PDF page

Runs == 1..MaxRuns

\* -------------------------------------------------------------- characters
LF == "\n"
CR == "\r"
SP == " "

UpperCase == <<"A","B","C","D","E","F","G","H","I","J","K","L","M",
               "N","O","P","Q","R","S","T","U","V","W","X","Y","Z">>
LowerCase == <<"a","b","c","d","e","f","g","h","i","j","k","l","m",
               "n","o","p","q","r","s","t","u","v","w","x","y","z">>

\* Faulty variant of lower_char: the case of the name is not folded.
lower_char_noop(c) == c

\* str.lower() on one character.
lower_char(c) ==
    IF \E i \in 1..Len(UpperCase) : UpperCase[i] = c
    THEN LowerCase[CHOOSE i \in 1..Len(UpperCase) : UpperCase[i] = c]
    ELSE c

\* str.lower()
lower(s) == [i \in 1..Len(s) |-> lower_char(s[i])]

\* Faulty variant of endswith: the suffix is compared without its first
\* character, so "xpdf" passes for a name ending in ".pdf".
endswith_loose(s, suffix) ==
    /\ Len(s) >= Len(suffix) - 1
    /\ SubSeq(s, Len(s) - Len(suffix) + 2, Len(s)) = Tail(suffix)

\* str.endswith(suffix)
endswith(s, suffix) ==
    /\ Len(s) >= Len(suffix)
    /\ SubSeq(s, Len(s) - Len(suffix) + 1, Len(s)) = suffix

DotPdf == <<".", "p", "d", "f">>
DotTxt == <<".", "t", "x", "t">>

\* --------------------------------------------------------- the ./data files
\* File names the data directory is drawn from, labelled by hand with what
\* they are: resumes (PDF), job descriptions (text), anything else.
PdfNames   == { <<"r", ".", "p", "d", "f">>, <<"R", ".", "P", "D", "F">> }
TxtNames   == { <<"j", ".", "t", "x", "t">>, <<"J", ".", "T", "x", "t">> }
OtherNames == { <<"n", ".", "m", "d">>, <<"x", "p", "d", "f">> }
FileNames  == PdfNames \cup TxtNames \cup OtherNames

RECURSIVE SeqsUpTo(_, _)
SeqsUpTo(S, n) ==
    IF n = 0 THEN { <<>> }
    ELSE LET shorter == SeqsUpTo(S, n - 1)
         IN  shorter \cup { Append(s, x) : s \in shorter, x \in S }

Range(s) == { s[i] : i \in 1..Len(s) }

\* A directory listing: distinct file names in the order the listing yields.
Listings == { l \in SeqsUpTo(FileNames, MaxFiles) : Cardinality(Range(l)) = Len(l) }

\* The text the reader extracts from a file: here, the first character of
\* its name, so that different files have different text.
DocText(name) == <<name[1]>>

\* SimpleDirectoryReader(input_dir="./data").load_data(): one document per
\* file, in listing order, with metadata['file_name'] and text.
load_data(listing) ==
    [i \in 1..Len(listing) |-> [file_name |-> listing[i], text |-> DocText(listing[i])]]

\* An optional value: <<>> is None, <<v>> is v.
None == <<>>
Some(v) == <<v>>

\* next((doc for doc in documents if doc...lower().endswith(suffix)), None)
first_match(documents, suffix) ==
    LET hits == { i \in 1..Len(documents) : endswith(lower(documents[i].file_name), suffix) }
    IN  IF hits = {} THEN None
        ELSE Some(documents[CHOOSE i \in hits : \A j \in hits : i <= j])

\* ------------------------------------------------------------------- text
Chars == { LF, CR, SP, "x" }
Whitespace == { SP, LF, CR, "\t" }

\* A text of MaxLines empty lines.
ManyLines == [i \in 1..MaxLines |-> LF]

\* Every text the language model may return: the short ones, and a long one.
Texts == SeqsUpTo(Chars, MaxLen) \cup { ManyLines }

\* os.linesep: the model is of a POSIX platform.
linesep == <<LF>>

\* Faulty variant of write_text: trailing whitespace is trimmed on the way
\* out (f.write(resume_content.rstrip())).
RECURSIVE write_text_trimmed(_)
write_text_trimmed(t) ==
    IF t = <<>> THEN <<>>
    ELSE IF t[Len(t)] \in Whitespace THEN write_text_trimmed(SubSeq(t, 1, Len(t) - 1))
    ELSE t

\* What a file opened with open(path, "w") stores for the text written to
\* it: each "\n" becomes os.linesep, everything else is stored as it is.
RECURSIVE write_text(_)
write_text(t) ==
    IF t = <<>> THEN <<>>
    ELSE (IF Head(t) = LF THEN linesep ELSE <<Head(t)>>) \o write_text(Tail(t))

\* What a file opened with open(path, "r") yields for the stored text:
\* universal newlines, "\r\n" and "\r" both read as "\n".
RECURSIVE read_text(_)
read_text(s) ==
    IF s = <<>> THEN <<>>
    ELSE IF Head(s) = CR
         THEN IF Len(s) > 1 /\ s[2] = LF
              THEN <<LF>> \o read_text(SubSeq(s, 3, Len(s)))
              ELSE <<LF>> \o read_text(Tail(s))
         ELSE <<Head(s)>> \o read_text(Tail(s))

\* "for line in f": the lines of a text, each with its "\n" when it has one;
\* what follows the last "\n" is a line when it is not empty.
RECURSIVE file_lines(_)
file_lines(t) ==
    IF t = <<>> THEN <<>>
    ELSE IF \E i \in 1..Len(t) : t[i] = LF
         THEN LET i == CHOOSE k \in 1..Len(t) : t[k] = LF /\ \A j \in 1..(k - 1) : t[j] # LF
              IN  <<SubSeq(t, 1, i)>> \o file_lines(SubSeq(t, i + 1, Len(t)))
         ELSE <<t>>

\* str.strip(): leading and trailing whitespace removed.
RECURSIVE strip(_)
strip(s) ==
    IF s = <<>> THEN <<>>
    ELSE IF Head(s) \in Whitespace THEN strip(Tail(s))
    ELSE IF s[Len(s)] \in Whitespace THEN strip(SubSeq(s, 1, Len(s) - 1))
    ELSE s

\* -------------------------------------------------------------------- FPDF
CellHeight       == 10    \* pdf.cell(0, 10, ...)
TopMargin        == 10    \* FPDF(): 1 cm margins
PageBreakTrigger == 277   \* FPDF(): A4, 297 mm high, 2 cm bottom margin

\* FPDF()
new_pdf == [pages |-> 0, y |-> 0, cells |-> <<>>]

\* pdf.add_page()
add_page(doc) == [doc EXCEPT !.pages = doc.pages + 1, !.y = TopMargin]

\* pdf.cell(0, 10, txt=txt, ln=True): a page break first when the cell does
\* not fit, then the cell, then the cursor moves down one cell.
cell(doc, txt) ==
    LET d == IF doc.y + CellHeight > PageBreakTrigger THEN add_page(doc) ELSE doc
    IN  [d EXCEPT !.cells = Append(d.cells, txt), !.y = d.y + CellHeight]

\* Faulty variant of render_lines: blank lines are skipped.
RECURSIVE render_lines_skip_blank(_, _)
render_lines_skip_blank(doc, lines) ==
    IF lines = <<>> THEN doc
    ELSE IF strip(Head(lines)) = <<>> THEN render_lines_skip_blank(doc, Tail(lines))
    ELSE render_lines_skip_blank(cell(doc, strip(Head(lines))), Tail(lines))

\* for line in f: pdf.cell(0, 10, txt=line.strip(), ln=True)
RECURSIVE render_lines(_, _)
render_lines(doc, lines) ==
    IF lines = <<>> THEN doc
    ELSE render_lines(cell(doc, strip(Head(lines))), Tail(lines))

\* ------------------------------------------------------------------ paths
TempPath  == <<"temp_resume.pdf">>
OutputDir == <<"./output">>

Digits == <<"0", "1", "2", "3", "4", "5", "6", "7", "8", "9">>

\* datetime.now().strftime("%Y%m%d_%H%M%S") for the clock reading t, in
\* seconds after the model's epoch: the date, hour and minute, then "%S".
strftime(t) == <<"20240101_0000", Digits[((t \div 10) % 6) + 1], Digits[(t % 10) + 1]>>

\* os.path.join(output_dir, f"restructured_resume_{timestamp}.txt")
text_path(timestamp) ==
    OutputDir \o <<"/">> \o <<"restructured_resume_">> \o timestamp \o <<".", "txt">>

\* path.rsplit(".", 1)[0]: the path up to its last dot, the whole path when
\* it has none.
rsplit_head(path) ==
    IF \E i \in 1..Len(path) : path[i] = "."
    THEN LET i == CHOOSE k \in 1..Len(path) :
                      path[k] = "." /\ \A j \in (k + 1)..Len(path) : path[j] # "."
         IN  SubSeq(path, 1, i - 1)
    ELSE path

\* text_file_path.rsplit(".", 1)[0] + ".pdf"
pdf_path(text_file_path) == rsplit_head(text_file_path) \o <<".", "pdf">>

\* ----------------------------------------------------------- file system
\* fs maps each existing path to what is there.
DirEntry        == [kind |-> "dir",  text |-> <<>>, pages |-> 0, cells |-> <<>>]
FileEntry(t)    == [kind |-> "file", text |-> t,    pages |-> 0, cells |-> <<>>]
PdfEntry(doc)   == [kind |-> "pdf",  text |-> <<>>, pages |-> doc.pages, cells |-> doc.cells]

exists(f, path) == path \in DOMAIN f

\* The file system with `path` now holding `entry`, created or replaced.
put(f, path, entry) ==
    [p \in (DOMAIN f) \cup {path} |-> IF p = path THEN entry ELSE f[p]]

\* os.remove(path)
remove(f, path) == [p \in (DOMAIN f) \ {path} |-> f[p]]

EmptyFs == [p \in {} |-> DirEntry]

\* Faulty variant of makedirs: nothing is created.
makedirs_noop(f, path) == f

\* os.makedirs(path, exist_ok=True), when it does not raise.
makedirs(f, path) == IF exists(f, path) THEN f ELSE put(f, path, DirEntry)

\* ------------------------------------------------------------------ state
VARIABLES
    dataDir,              \* the listing of ./data, in the order it is yielded
    fs,                   \* the working directory: path -> entry
    now,                  \* the wall clock, in seconds
    pc,                   \* per run: the next step of execute_task
    calls,                \* per run: the tools run_tool has invoked, in order
    returned,             \* per run: how many of those calls have returned
    error,                \* per run: the exception that ended it, "" if none
    resume_doc,           \* per run: execute_task's local
    job_description_doc,  \* per run: execute_task's local
    parsed_doc,           \* per run: parse_resume's local
    parsed_resume,        \* per run: execute_task's local
    restructured_resume,  \* per run: execute_task's local
    file_path,            \* per run: write_resume_to_file's local
    text_file_path,       \* per run: execute_task's local
    pdf,                  \* per run: create_pdf_from_text's local
    pdf_file_path,        \* per run: execute_task's local
    result,               \* per run: what execute_task returned
    parseInput            \* per run: what the parsing service was given

shared == <<dataDir, fs, now>>
control == <<pc, calls, returned, error>>
locals == <<resume_doc, job_description_doc, parsed_doc, parsed_resume,
            restructured_resume, file_path, text_file_path, pdf, pdf_file_path,
            result, parseInput>>
vars == <<shared, control, locals>>

\* The tools in the order execute_task invokes them.
Tools == << "read_files_from_data_directory", "parse_resume", "restructure_resume",
            "write_resume_to_file", "create_pdf_from_text" >>

\* The working directory before any run: no transient file, and ./output
\* absent, a directory, or (someone's) regular file.
InitialFs ==
    { EmptyFs, put(EmptyFs, OutputDir, DirEntry), put(EmptyFs, OutputDir, FileEntry(<<>>)) }

InitWith(listings) ==
    /\ dataDir \in listings
    /\ fs \in InitialFs
    /\ now = 0
    /\ pc = [r \in Runs |-> "read_files"]
    /\ calls = [r \in Runs |-> <<>>]
    /\ returned = [r \in Runs |-> 0]
    /\ error = [r \in Runs |-> ""]
    /\ resume_doc = [r \in Runs |-> None]
    /\ job_description_doc = [r \in Runs |-> None]
    /\ parsed_doc = [r \in Runs |-> None]
    /\ parsed_resume = [r \in Runs |-> None]
    /\ restructured_resume = [r \in Runs |-> None]
    /\ file_path = [r \in Runs |-> None]
    /\ text_file_path = [r \in Runs |-> None]
    /\ pdf = [r \in Runs |-> new_pdf]
    /\ pdf_file_path = [r \in Runs |-> None]
    /\ result = [r \in Runs |-> None]
    /\ parseInput = [r \in Runs |-> None]

\* ---------------------------------------------------------- control flow
\* Faulty variant of raise: the exception is caught and noted, and
\* execute_task returns as if it had finished.
raise_and_finish(r, e) ==
    /\ pc' = [pc EXCEPT ![r] = "done"]
    /\ error' = [error EXCEPT ![r] = e]
    /\ UNCHANGED returned

\* An exception in a tool: execute_task has no handler, so the run ends.
raise(r, e) ==
    /\ pc' = [pc EXCEPT ![r] = "failed"]
    /\ error' = [error EXCEPT ![r] = e]
    /\ UNCHANGED returned

\* self.run_tool(name, ...): the tool is invoked.
run_tool(r, name) == calls' = [calls EXCEPT ![r] = Append(calls[r], name)]

\* The tool returns to execute_task, which goes on to `next`.
return_to(r, next) ==
    /\ returned' = [returned EXCEPT ![r] = returned[r] + 1]
    /\ pc' = [pc EXCEPT ![r] = next]
    /\ UNCHANGED error

\* Inside a tool: on to its next statement.
goto(r, next) ==
    /\ pc' = [pc EXCEPT ![r] = next]
    /\ UNCHANGED <<returned, error>>

\* ------------------------------------------------------------------ steps
\* read_files_from_data_directory(): the first PDF and the first text file
\* of the listing, ValueError when either is missing.
read_files_from_data_directory(r) ==
    /\ pc[r] = "read_files"
    /\ run_tool(r, Tools[1])
    /\ LET documents == load_data(dataDir)
           resume == first_match(documents, DotPdf)
           job_description == first_match(documents, DotTxt)
       IN  IF resume = None \/ job_description = None
           THEN /\ raise(r, "ValueError")
                /\ UNCHANGED <<resume_doc, job_description_doc>>
           ELSE /\ resume_doc' = [resume_doc EXCEPT ![r] = resume]
                /\ job_description_doc' = [job_description_doc EXCEPT ![r] = job_description]
                /\ return_to(r, "parse_write")
    /\ UNCHANGED <<shared, parsed_doc, parsed_resume, restructured_resume, file_path,
                   text_file_path, pdf, pdf_file_path, result, parseInput>>

\* parse_resume, lines 33-35: the resume text is written to temp_resume.pdf.
parse_resume_write(r) ==
    /\ pc[r] = "parse_write"
    /\ run_tool(r, Tools[2])
    /\ fs' = put(fs, TempPath, FileEntry(resume_doc[r][1].text))
    /\ goto(r, "parse_call")
    /\ UNCHANGED <<dataDir, now, locals>>

\* parse_resume, line 37: the parsing service reads temp_resume.pdf and
\* returns the parsed document, or raises.
parse_resume_call(r) ==
    /\ pc[r] = "parse_call"
    /\ IF ~exists(fs, TempPath)
       THEN /\ raise(r, "FileNotFoundError")
            /\ UNCHANGED <<parsed_doc, parseInput>>
       ELSE /\ parseInput' = [parseInput EXCEPT ![r] = Some(fs[TempPath].text)]
            /\ \E ok \in BOOLEAN :
                 IF ok
                 THEN /\ parsed_doc' = [parsed_doc EXCEPT ![r] = Some([text |-> fs[TempPath].text])]
                      /\ goto(r, "parse_remove")
                 ELSE /\ raise(r, "ParseError")
                      /\ UNCHANGED parsed_doc
    /\ UNCHANGED <<shared, calls, resume_doc, job_description_doc, parsed_resume,
                   restructured_resume, file_path, text_file_path, pdf, pdf_file_path, result>>

\* Faulty variant of parse_resume_remove: the transient file is kept.
parse_resume_keep(r) ==
    /\ pc[r] = "parse_remove"
    /\ parsed_resume' = [parsed_resume EXCEPT ![r] = Some(parsed_doc[r][1].text)]
    /\ return_to(r, "restructure")
    /\ UNCHANGED <<shared, calls, resume_doc, job_description_doc, parsed_doc,
                   restructured_resume, file_path, text_file_path, pdf, pdf_file_path,
                   result, parseInput>>

\* parse_resume, lines 39-40: temp_resume.pdf is removed and the text returned.
parse_resume_remove(r) ==
    /\ pc[r] = "parse_remove"
    /\ IF exists(fs, TempPath)
       THEN /\ fs' = remove(fs, TempPath)
            /\ parsed_resume' = [parsed_resume EXCEPT ![r] = Some(parsed_doc[r][1].text)]
            /\ return_to(r, "restructure")
       ELSE /\ raise(r, "FileNotFoundError")
            /\ UNCHANGED <<fs, parsed_resume>>
    /\ UNCHANGED <<dataDir, now, calls, resume_doc, job_description_doc, parsed_doc,
                   restructured_resume, file_path, text_file_path, pdf, pdf_file_path,
                   result, parseInput>>

\* restructure_resume: the language model returns some text, or raises.
restructure_resume(r, outputs) ==
    /\ pc[r] = "restructure"
    /\ run_tool(r, Tools[3])
    /\ \E ok \in BOOLEAN :
         IF ok
         THEN /\ \E t \in outputs :
                   restructured_resume' = [restructured_resume EXCEPT ![r] = Some(t)]
              /\ return_to(r, "write_prepare")
         ELSE /\ raise(r, "CompletionError")
              /\ UNCHANGED restructured_resume
    /\ UNCHANGED <<shared, resume_doc, job_description_doc, parsed_doc, parsed_resume,
                   file_path, text_file_path, pdf, pdf_file_path, result, parseInput>>

\* write_resume_to_file, lines 60-64: os.makedirs(exist_ok=True), which
\* raises when ./output is not a directory, then the timestamped path.
write_resume_prepare(r) ==
    /\ pc[r] = "write_prepare"
    /\ run_tool(r, Tools[4])
    /\ IF exists(fs, OutputDir) /\ fs[OutputDir].kind # "dir"
       THEN /\ raise(r, "FileExistsError")
            /\ UNCHANGED <<fs, file_path>>
       ELSE /\ fs' = makedirs(fs, OutputDir)
            /\ file_path' = [file_path EXCEPT ![r] = Some(text_path(strftime(now)))]
            /\ goto(r, "write_store")
    /\ UNCHANGED <<dataDir, now, resume_doc, job_description_doc, parsed_doc, parsed_resume,
                   restructured_resume, text_file_path, pdf, pdf_file_path, result, parseInput>>

\* Faulty variant of write_resume_store: execute_task returns once the text
\* file is written, and no PDF is made.
write_resume_store_and_stop(r) ==
    /\ pc[r] = "write_store"
    /\ fs' = put(fs, file_path[r][1], FileEntry(write_text(restructured_resume[r][1])))
    /\ text_file_path' = [text_file_path EXCEPT ![r] = file_path[r]]
    /\ return_to(r, "done")
    /\ UNCHANGED <<dataDir, now, calls, resume_doc, job_description_doc, parsed_doc,
                   parsed_resume, restructured_resume, file_path, pdf, pdf_file_path,
                   result, parseInput>>

\* write_resume_to_file, lines 65-67: the file is created or truncated, the
\* text written, the path returned.
write_resume_store(r) ==
    /\ pc[r] = "write_store"
    /\ fs' = put(fs, file_path[r][1], FileEntry(write_text(restructured_resume[r][1])))
    /\ text_file_path' = [text_file_path EXCEPT ![r] = file_path[r]]
    /\ return_to(r, "pdf_render")
    /\ UNCHANGED <<dataDir, now, calls, resume_doc, job_description_doc, parsed_doc,
                   parsed_resume, restructured_resume, file_path, pdf, pdf_file_path,
                   result, parseInput>>

\* create_pdf_from_text, lines 72-77: a document of one page, then one cell
\* per line of the text file.
create_pdf_render(r) ==
    /\ pc[r] = "pdf_render"
    /\ run_tool(r, Tools[5])
    /\ IF ~exists(fs, text_file_path[r][1])
       THEN /\ raise(r, "FileNotFoundError")
            /\ UNCHANGED pdf
       ELSE /\ pdf' = [pdf EXCEPT ![r] =
                         render_lines(add_page(new_pdf),
                                      file_lines(read_text(fs[text_file_path[r][1]].text)))]
            /\ goto(r, "pdf_output")
    /\ UNCHANGED <<shared, resume_doc, job_description_doc, parsed_doc, parsed_resume,
                   restructured_resume, file_path, text_file_path, pdf_file_path, result,
                   parseInput>>

\* create_pdf_from_text, lines 78-80, and execute_task's return: the PDF is
\* written next to the text file, or the library raises; then the message
\* naming both paths.
create_pdf_output(r) ==
    /\ pc[r] = "pdf_output"
    /\ \E ok \in BOOLEAN :
         IF ok
         THEN /\ fs' = put(fs, pdf_path(text_file_path[r][1]), PdfEntry(pdf[r]))
              /\ pdf_file_path' = [pdf_file_path EXCEPT ![r] = Some(pdf_path(text_file_path[r][1]))]
              /\ result' = [result EXCEPT ![r] =
                              Some(<<text_file_path[r][1], pdf_path(text_file_path[r][1])>>)]
              /\ return_to(r, "done")
         ELSE /\ raise(r, "PdfError")
              /\ UNCHANGED <<fs, pdf_file_path, result>>
    /\ UNCHANGED <<dataDir, now, calls, resume_doc, job_description_doc, parsed_doc,
                   parsed_resume, restructured_resume, file_path, text_file_path, pdf,
                   parseInput>>

\* One step of execute_task in run r.
execute_task(r, outputs) ==
    \/ read_files_from_data_directory(r)
    \/ parse_resume_write(r)
    \/ parse_resume_call(r)
    \/ parse_resume_remove(r)
    \/ restructure_resume(r, outputs)
    \/ write_resume_prepare(r)
    \/ write_resume_store(r)
    \/ create_pdf_render(r)
    \/ create_pdf_output(r)

\* A second passes.
Tick ==
    /\ now < MaxClock
    /\ now' = now + 1
    /\ UNCHANGED <<dataDir, fs, control, locals>>

\* --------------------------------------------------------- specifications
GoodListing == << <<"r", ".", "p", "d", "f">>, <<"j", ".", "t", "x", "t">> >>
FewListings == { GoodListing, << <<"j", ".", "t", "x", "t">> >> }
FewTexts    == { <<"x">>, <<"x", LF>> }

\* No run is inside a tool.
Idle(r) == pc[r] \in {"read_files", "done", "failed"}

\* Runs interleaved in one working directory.
Init == InitWith(FewListings)
Next == (\E r \in Runs : execute_task(r, FewTexts)) \/ Tick
Spec == Init /\ [][Next]_vars

\* Runs one after the other in one working directory.
NextSeq ==
    \/ \E r \in Runs : (\A o \in Runs \ {r} : Idle(o)) /\ execute_task(r, FewTexts)
    \/ Tick
SpecSeq == Init /\ [][NextSeq]_vars

\* One run, over every listing of ./data.
InitLocator == InitWith(Listings)
NextLocator == execute_task(1, FewTexts) \/ Tick
SpecLocator == InitLocator /\ [][NextLocator]_vars

\* One run, over every text the language model may return.
InitText == InitWith({GoodListing})
NextText == execute_task(1, Texts) \/ Tick
SpecText == InitText /\ [][NextText]_vars

\* ================================================================= claims
IsPrefix(s, t) == Len(s) <= Len(t) /\ s = SubSeq(t, 1, Len(s))

\* C1: within a run of execute_task the tools are invoked in the fixed order
\* read_files_from_data_directory, parse_resume, restructure_resume,
\* write_resume_to_file, create_pdf_from_text: what has been invoked is
\* always a prefix of that order (so no tool twice, none skipped), every
\* invoked tool but the last has returned, and a run that is done has
\* invoked all five and all five have returned.
C1_FixedOrder ==
    \A r \in Runs :
        /\ IsPrefix(calls[r], Tools)
        /\ returned[r] \in { Len(calls[r]) - 1, Len(calls[r]) }
        /\ returned[r] >= 0
        /\ pc[r] = "done" => calls[r] = Tools /\ returned[r] = Len(Tools)

C1_Witness ==
    /\ \A r \in Runs : pc[r] = "done" /\ calls[r] = Tools
    /\ now > 0

\* A run in which a tool raised is in the failed state with no success
\* message, and the tool that raised is the last one invoked.
C2_RaisedMeansFailed ==
    \A r \in Runs :
        error[r] # "" =>
            /\ pc[r] = "failed"
            /\ result[r] = None
            /\ returned[r] = Len(calls[r]) - 1

\* A run in which a tool raised takes no further step.
C2_FailedStaysFailed ==
    \A r \in Runs :
        error[r] # "" =>
            /\ calls'[r] = calls[r]
            /\ returned'[r] = returned[r]
            /\ pc'[r] = pc[r]
            /\ error'[r] = error[r]
            /\ result'[r] = result[r]

\* C2: a run in which a tool raised has ended: it is in the failed state
\* with no success message, the tool that raised is the last one invoked
\* and never returned, and from then on the run invokes nothing, retries
\* nothing and keeps its error.
C2_FailureAborts == []C2_RaisedMeansFailed /\ [][C2_FailedStaysFailed]_vars

C2_Witness ==
    /\ error[1] = "CompletionError" /\ Len(calls[1]) = 3
    /\ pc[2] = "done"

\* The files of a listing, by the hand-made labels of the file names.
PdfsOf(listing) == Range(listing) \cap PdfNames
TxtsOf(listing) == Range(listing) \cap TxtNames

\* The files below ./output.
OutputFiles == { p \in DOMAIN fs : Len(p) > 1 /\ p[1] = OutputDir[1] }

\* C3: when the listing of ./data has no file whose lower-cased name ends
\* in ".pdf", or none whose lower-cased name ends in ".txt", a run that has
\* called read_files_from_data_directory has failed with ValueError and
\* holds no pair; nothing is ever written below ./output and
\* temp_resume.pdf is never created.
C3_MissingInputFails ==
    (PdfsOf(dataDir) = {} \/ TxtsOf(dataDir) = {}) =>
        /\ \A r \in Runs :
               pc[r] # "read_files" =>
                   /\ pc[r] = "failed"
                   /\ error[r] = "ValueError"
                   /\ resume_doc[r] = None
                   /\ job_description_doc[r] = None
                   /\ result[r] = None
        /\ OutputFiles = {}
        /\ ~exists(fs, TempPath)

C3_Witness ==
    /\ PdfsOf(dataDir) = {}
    /\ TxtsOf(dataDir) # {}
    /\ \E i \in 1..Len(dataDir) : dataDir[i] = <<"x", "p", "d", "f">>
    /\ error[1] = "ValueError"

\* C4: when the listing of ./data holds exactly one PDF and exactly one
\* text file (names compared case-insensitively), a run that has called
\* read_files_from_data_directory holds exactly that pair, whatever else
\* the listing holds and in whatever order.
C4_UniquePairFound ==
    (Cardinality(PdfsOf(dataDir)) = 1 /\ Cardinality(TxtsOf(dataDir)) = 1) =>
        \A r \in Runs :
            pc[r] # "read_files" =>
                /\ error[r] # "ValueError"
                /\ resume_doc[r] # None
                /\ job_description_doc[r] # None
                /\ PdfsOf(dataDir) = { resume_doc[r][1].file_name }
                /\ TxtsOf(dataDir) = { job_description_doc[r][1].file_name }
                /\ resume_doc[r][1].text = DocText(resume_doc[r][1].file_name)

C4_Witness ==
    /\ dataDir = << <<"n", ".", "m", "d">>, <<"J", ".", "T", "x", "t">>, <<"R", ".", "P", "D", "F">> >>
    /\ resume_doc[1] # None
    /\ resume_doc[1][1].file_name = <<"R", ".", "P", "D", "F">>

\* The step in which run r leaves parse_resume.
InParseResume(label) == label \in {"parse_write", "parse_call", "parse_remove"}

C5_ParseResumeFinishes(r) == InParseResume(pc[r]) /\ ~InParseResume(pc'[r])

\* C5: with runs one after the other, at the step in which parse_resume
\* finishes (returns or raises), temp_resume.pdf exists afterwards exactly
\* when the parsing service raised.
C5_TempFileLeak ==
    [][\A r \in Runs :
          C5_ParseResumeFinishes(r) =>
              /\ exists(fs', TempPath) <=> error'[r] = "ParseError"
              /\ error'[r] = "" => pc'[r] = "restructure" /\ parsed_resume'[r] # None
      ]_vars

C5_Witness ==
    /\ pc[2] = "done"
    /\ error[1] = "ParseError"
    /\ exists(fs, TempPath)

\* C6 as stated: after a successful write_resume_to_file, for any text,
\* ./output exists and the returned path names a file that exists and is
\* not empty.
C6_Original ==
    \A r \in Runs :
        text_file_path[r] # None =>
            /\ exists(fs, OutputDir) /\ fs[OutputDir].kind = "dir"
            /\ exists(fs, text_file_path[r][1])
            /\ fs[text_file_path[r][1]].text # <<>>

\* C6 amended: at the step in which write_resume_to_file returns, ./output
\* exists as a directory and the returned path names a file below it that
\* exists; the file is empty exactly when the text written was empty.
C6_WrittenFileExists ==
    [][\A r \in Runs :
          (pc[r] = "write_store" /\ pc'[r] # "write_store") =>
              /\ text_file_path'[r] # None
              /\ exists(fs', OutputDir) /\ fs'[OutputDir].kind = "dir"
              /\ exists(fs', text_file_path'[r][1])
              /\ Len(text_file_path'[r][1]) > 1 /\ text_file_path'[r][1][1] = OutputDir[1]
              /\ fs'[text_file_path'[r][1]].kind = "file"
              /\ fs'[text_file_path'[r][1]].text = <<>> <=> restructured_resume[r][1] = <<>>
      ]_vars

C6_Witness ==
    /\ text_file_path[1] # None
    /\ restructured_resume[1] = Some(<<>>)
    /\ fs[text_file_path[1][1]].text = <<>>

Terminators(t) ==
    { i \in 1..Len(t) : t[i] = LF \/ (t[i] = CR /\ (i = Len(t) \/ t[i + 1] # LF)) }

LineCount(t) ==
    Cardinality(Terminators(t)) + (IF t # <<>> /\ Len(t) \notin Terminators(t) THEN 1 ELSE 0)

\* The lines that hold something besides their terminator: those whose
\* terminator does not come right after another terminator or the start.
NonEmptyLineCount(t) ==
    Cardinality({ i \in Terminators(t) :
                    LET first == IF t[i] = LF /\ i > 1 /\ t[i - 1] = CR THEN i - 1 ELSE i
                    IN  first > 1 /\ (first - 1) \notin Terminators(t) })
    + (IF t # <<>> /\ Len(t) \notin Terminators(t) THEN 1 ELSE 0)

\* C8 as stated: the PDF has at least one page and exactly as many cells as
\* the text file has non-empty lines.
C8_Original ==
    \A r \in Runs :
        pdf_file_path[r] # None =>
            /\ fs[pdf_file_path[r][1]].pages >= 1
            /\ Len(fs[pdf_file_path[r][1]].cells) = NonEmptyLineCount(fs[text_file_path[r][1]].text)

\* C8 amended: when create_pdf_from_text returns, the PDF has at least one
\* page and exactly one cell per line of the text file, empty lines
\* included, and no cell's text starts or ends with whitespace.
C8_OneCellPerLine ==
    \A r \in Runs :
        pdf_file_path[r] # None =>
            LET doc == fs[pdf_file_path[r][1]]
            IN  /\ doc.kind = "pdf"
                /\ doc.pages >= 1
                /\ Len(doc.cells) = LineCount(fs[text_file_path[r][1]].text)
                /\ \A i \in 1..Len(doc.cells) :
                       doc.cells[i] # <<>> =>
                           /\ Head(doc.cells[i]) \notin Whitespace
                           /\ doc.cells[i][Len(doc.cells[i])] \notin Whitespace

C8_Witness ==
    /\ pdf_file_path[1] # None
    /\ restructured_resume[1] = Some(<<"x", LF, LF>>)
    /\ fs[pdf_file_path[1][1]].cells = << <<"x">>, <<>> >>
    /\ fs[pdf_file_path[1][1]].pages = 1

\* C9: once a file exists below ./output, no step of any run changes its
\* content or removes it.
C9_ArtifactsImmutable ==
    [][\A p \in OutputFiles : exists(fs', p) /\ fs'[p] = fs[p]]_vars

\* C10: runs do not interfere through temp_resume.pdf: the parsing service
\* is handed the run's own resume text, and no run fails because the file
\* it wrote is gone, which never happens to a run on its own.
C10_RunsIndependent ==
    \A r \in Runs :
        /\ parseInput[r] # None => parseInput[r] = Some(resume_doc[r][1].text)
        /\ error[r] # "FileNotFoundError"
====
